---- MODULE Spec2Model ----
(***************************************************************************)
(* A model of the 433 MHz OOK codec: the Receiver's edge decoder           *)
(* (src/models/receiver.py) and the Transmitter's waveform scheduler       *)
(* (src/models/transmitter.py).                                            *)
(*                                                                         *)
(* Time stamps of edge events are integers in nanoseconds, as tick.time    *)
(* is; the code divides them by 1000 and compares the quotient with        *)
(* thresholds in microseconds.  The model compares the undivided value     *)
(* with the threshold multiplied by 1000, which is the same comparison.    *)
(***************************************************************************)
EXTENDS Integers, Sequences, FiniteSets, TLC

\* ------------------------------------------------------------------------
\* Bounds of the model (not program constants)
\* ------------------------------------------------------------------------
\* number of edge events fed to the decoder by the free edge source
MaxTicks == 6
\* number of decode tasks ever created
MaxTasks == 2
\* number of pulse pairs of a hand-made (not transmitted) timeline
MaxFreePairs == 2
\* number of edge events delivered when several instances run
MaxInstTicks == 3
MaxLoopTicks == 4
MaxOverlapBits == 1
MaxOverlapRepeat == 1
\* the bit width and the repeat count of a transmission.  The class sets
\* tx_length = 24 and tx_repeat = 10 (transmitter.py lines 45-46); the model
\* takes them from 1 .. MaxBits and 1 .. MaxRepeat.
MaxBits == 3
MaxRepeat == 2
\* number of asyncio.sleep increments of one hold.  _sleep cuts a hold into
\* increments of a hundredth of it and sleeps until 99% of it has passed
\* (transmitter.py lines 145-149); the model takes SleepSteps increments.
SleepSteps == 2

\* ------------------------------------------------------------------------
\* Program constants
\* ------------------------------------------------------------------------
\* the "unset" sentinel of the four edge markers
Unset == -1
\* nanoseconds per microsecond: the divisor of high_duration / 1000
NsPerUs == 1000
\* rx_tolerance = 0.8, held in thousandths: the float of the code is the
\* double nearest to rx_tolerance / 1000
DefaultToleranceMilli == 800
\* the significant bits of a Python float (IEEE 754 binary64)
MantissaBits == 53
\* rx_pulselength = 3500 microseconds
DefaultRxPulselength == 3500
\* the factor of the sync-gap threshold, 6 * rx_pulselength
SyncFactor == 6
\* the factor of the bit thresholds, 2 * rx_pulselength
BitFactor == 2

\* None (rx_code_timestamp before the first commit, stream_task when stopped)
None == <<>>
Some(x) == <<x>>

\* the Receiver instances (two pins) and the identities of the decode tasks
Instances == {"A", "B"}
TaskIds == 1 .. MaxTasks

\* ------------------------------------------------------------------------
\* State
\* ------------------------------------------------------------------------
VARIABLES
    stop_event,         \* Receiver._stop_event: one Event object of the class
    stream_task,        \* Receiver.stream_task of each instance
    rx_code,            \* Receiver.rx_code, the latest committed code
    rx_code_timestamp,  \* Receiver.rx_code_timestamp
    rx_pulselength,     \* Receiver.rx_pulselength (microseconds)
    rx_tolerance,       \* Receiver.rx_tolerance, in thousandths
    tasks,              \* the asyncio tasks running _process_stream_ticks
    clock,              \* time of the last edge event of each pin (ns)
    nticks,             \* number of edge events delivered so far
    hist,               \* the last decode step: its tick and the state before
    scen,               \* round trip: the transmission that made the timeline
    timeline,           \* round trip: the edge events of the timeline
    consumed,           \* round trip: how many of them the decoder has taken
    tx_length,          \* Transmitter.tx_length
    tx_repeat,          \* Transmitter.tx_repeat
    tx,                 \* the do_command calls in progress, one per caller
    pin,                \* the level of the output pin
    pin_log             \* the writes to the output pin, in order

rxvars == <<stop_event, stream_task, rx_code, rx_code_timestamp,
            rx_pulselength, rx_tolerance, tasks, clock, nticks, hist>>

rtvars == <<scen, timeline, consumed>>

txvars == <<tx_length, tx_repeat, tx, pin, pin_log>>

vars == <<rxvars, rtvars, txvars>>

\* ------------------------------------------------------------------------
\* Transmitter: the protocol table and the encoding of a code
\* ------------------------------------------------------------------------
\* transmitter.py lines 25-31: PROTOCOLS[1 .. 6] (PROTOCOLS[0] is None)
TxProtocols == <<
    [pulselength |-> 3500, sync_high |-> 1, sync_low |-> 31,
     zero_high |-> 1, zero_low |-> 3, one_high |-> 3, one_low |-> 1],
    [pulselength |-> 650, sync_high |-> 1, sync_low |-> 10,
     zero_high |-> 1, zero_low |-> 2, one_high |-> 2, one_low |-> 1],
    [pulselength |-> 100, sync_high |-> 30, sync_low |-> 71,
     zero_high |-> 4, zero_low |-> 11, one_high |-> 9, one_low |-> 6],
    [pulselength |-> 380, sync_high |-> 1, sync_low |-> 6,
     zero_high |-> 1, zero_low |-> 3, one_high |-> 3, one_low |-> 1],
    [pulselength |-> 500, sync_high |-> 6, sync_low |-> 14,
     zero_high |-> 1, zero_low |-> 2, one_high |-> 2, one_low |-> 1],
    [pulselength |-> 200, sync_high |-> 1, sync_low |-> 10,
     zero_high |-> 1, zero_low |-> 5, one_high |-> 1, one_low |-> 1] >>

\* line 42
tx_protocol == 1

\* receiver.py lines 27-33: the Receiver's own PROTOCOLS table, of which the
\* decode loop reads nothing; its pulse length of protocol 1 is 350
RxProtocol1Pulselength == 350

\* the binary digits of a natural number, most significant first, as the
\* characters format(code, 'b') writes
RECURSIVE BinDigits(_)
BinDigits(n) ==
    IF n < 2 THEN << IF n = 0 THEN "0" ELSE "1" >>
    ELSE BinDigits(n \div 2) \o << IF n % 2 = 0 THEN "0" ELSE "1" >>

\* the formatted code cut to its last width digits
FormatBin_Truncating(code, width) ==
    LET digits == BinDigits(code)
        padded == [k \in 1 .. (width - Len(digits)) |-> "0"] \o digits
    IN  SubSeq(padded, Len(padded) - width + 1, Len(padded))

\* line 103: format(code, f'#0{width + 2}b')[2:].  The format pads the digits
\* with zeros up to the width and never cuts digits off.
FormatBin(code, width) ==
    LET digits == BinDigits(code)
    IN  [k \in 1 .. (width - Len(digits)) |-> "0"] \o digits

\* lines 120-136: the (highpulses, lowpulses) of transmit_0 / _1 / _sync
Waveform0 == <<TxProtocols[tx_protocol].zero_high,
               TxProtocols[tx_protocol].zero_low>>
Waveform1 == <<TxProtocols[tx_protocol].one_high,
               TxProtocols[tx_protocol].one_low>>
WaveformSync == <<TxProtocols[tx_protocol].sync_high,
                  TxProtocols[tx_protocol].sync_low>>

\* the two branches of lines 113-116 exchanged
WaveformAt_Swapped(rawcode, byte, width) ==
    IF byte = width THEN WaveformSync
    ELSE IF rawcode[byte + 1] = "0" THEN Waveform1 ELSE Waveform0

\* lines 112-117: the waveform at position byte (0-based) of one repetition;
\* position width is the sync that follows the bits
WaveformAt(rawcode, byte, width) ==
    IF byte = width THEN WaveformSync
    ELSE IF rawcode[byte + 1] = "0" THEN Waveform0 ELSE Waveform1

\* lines 140 and 142: the two holds of a waveform, in microseconds
HoldsOf(waveform, pulselength) ==
    <<waveform[1] * pulselength, waveform[2] * pulselength>>

\* lines 109-118: the pulse pairs (microseconds) of transmit_binary
PulsePairs(rawcode, width, repeat, pulselength) ==
    [k \in 1 .. repeat * (width + 1) |->
        HoldsOf(WaveformAt(rawcode, (k - 1) % (width + 1), width),
                pulselength)]


\* ------------------------------------------------------------------------
\* Transmitter.do_command and the coroutines it awaits
\* ------------------------------------------------------------------------
\* line 44: tx_pulselength = PROTOCOLS[tx_protocol].pulselength
tx_pulselength == TxProtocols[tx_protocol].pulselength

\* the callers of do_command
Callers == {"c1", "c2"}

\* The "code" entry of a command: missing, a number, or a string of decimal
\* digits (int(code) of line 162 reads either).
NoCode == [kind |-> "none", val |-> 0]
Commands(maxcode) ==
    {NoCode} \cup [kind : {"num", "str"}, val : 0 .. maxcode]

\* line 161, `if code:` -- a missing entry (None) and the number 0 are
\* false, a number other than 0 and a non-empty string are true
Truthy(cmd) ==
    \/ cmd.kind = "num" /\ cmd.val # 0
    \/ cmd.kind = "str"

\* pc: "idle"       no call
\*     "get_gpio"   awaiting board.gpio_pin_by_name (line 159)
\*     "set_high"   awaiting gpio.set(True) (line 139)
\*     "hold_high"  in the _sleep of line 140
\*     "set_low"    awaiting gpio.set(False) (line 141)
\*     "hold_low"   in the _sleep of line 142
\*     "returned"   do_command returned `result`
\*     "cancelled"  the call was cancelled at one of its awaits
IdleCall == [pc |-> "idle", command |-> NoCode, rawcode |-> << >>,
             rep |-> 0, byte |-> 0, slept |-> 0, result |-> "none"]

TxAwaiting == {"get_gpio", "set_high", "hold_high", "set_low", "hold_low"}

\* a caller calls do_command(command)
DoCommand(c, cmd) ==
    /\ tx[c].pc = "idle"
    /\ tx' = [tx EXCEPT ![c] = [IdleCall EXCEPT !.pc = "get_gpio",
                                                !.command = cmd]]
    /\ UNCHANGED <<tx_length, tx_repeat, pin, pin_log>>
    /\ UNCHANGED <<rxvars, rtvars>>

\* lines 159-164 and 102-105: the pin is there; without a true code the call
\* returns the failure of line 164, with one transmit_code formats it and
\* transmit_binary starts the first waveform
TxGotGpio(c) ==
    /\ tx[c].pc = "get_gpio"
    /\ IF Truthy(tx[c].command)
       THEN tx' = [tx EXCEPT ![c].pc = "set_high",
                             ![c].rawcode =
                                 FormatBin(tx[c].command.val, tx_length),
                             ![c].rep = 0, ![c].byte = 0]
       ELSE tx' = [tx EXCEPT ![c].pc = "returned",
                             ![c].result = "code is required"]
    /\ UNCHANGED <<tx_length, tx_repeat, pin, pin_log>>
    /\ UNCHANGED <<rxvars, rtvars>>

\* the holds of the waveform the call is at
CurrentHolds(c) ==
    HoldsOf(WaveformAt(tx[c].rawcode, tx[c].byte, tx_length), tx_pulselength)

\* line 139: gpio.set(True), then the _sleep of line 140 starts
TxSetHigh(c) ==
    /\ tx[c].pc = "set_high"
    /\ pin' = TRUE
    /\ pin_log' = Append(pin_log, [by |-> c, level |-> TRUE,
                                   hold |-> CurrentHolds(c)[1]])
    /\ tx' = [tx EXCEPT ![c].pc = "hold_high", ![c].slept = 0]
    /\ UNCHANGED <<tx_length, tx_repeat>>
    /\ UNCHANGED <<rxvars, rtvars>>

\* line 141: gpio.set(False), then the _sleep of line 142 starts
TxSetLow(c) ==
    /\ tx[c].pc = "set_low"
    /\ pin' = FALSE
    /\ pin_log' = Append(pin_log, [by |-> c, level |-> FALSE,
                                   hold |-> CurrentHolds(c)[2]])
    /\ tx' = [tx EXCEPT ![c].pc = "hold_low", ![c].slept = 0]
    /\ UNCHANGED <<tx_length, tx_repeat>>
    /\ UNCHANGED <<rxvars, rtvars>>

\* lines 111-118 and 105-107, 165: after the low hold of a waveform comes the
\* next bit, the sync, the next repetition, or the return of success
AfterWaveform(call) ==
    IF call.byte < tx_length
    THEN [call EXCEPT !.pc = "set_high", !.byte = call.byte + 1]
    ELSE IF call.rep + 1 < tx_repeat
    THEN [call EXCEPT !.pc = "set_high", !.byte = 0, !.rep = call.rep + 1]
    ELSE [call EXCEPT !.pc = "returned", !.result = "success"]

\* the waveform ended after its high hold, lines 141-142 left out
TxSleep_NoLow(c) ==
    /\ tx[c].pc \in {"hold_high", "hold_low"}
    /\ IF tx[c].slept + 1 < SleepSteps
       THEN tx' = [tx EXCEPT ![c].slept = tx[c].slept + 1]
       ELSE tx' = [tx EXCEPT ![c] = AfterWaveform([tx[c] EXCEPT !.slept = 0])]
    /\ UNCHANGED <<tx_length, tx_repeat, pin, pin_log>>
    /\ UNCHANGED <<rxvars, rtvars>>

\* lines 145-149: one asyncio.sleep of the hold returns; after the last one
\* the hold is over
TxSleep(c) ==
    /\ tx[c].pc \in {"hold_high", "hold_low"}
    /\ IF tx[c].slept + 1 < SleepSteps
       THEN tx' = [tx EXCEPT ![c].slept = tx[c].slept + 1]
       ELSE IF tx[c].pc = "hold_high"
       THEN tx' = [tx EXCEPT ![c].pc = "set_low", ![c].slept = 0]
       ELSE tx' = [tx EXCEPT ![c] = AfterWaveform([tx[c] EXCEPT !.slept = 0])]
    /\ UNCHANGED <<tx_length, tx_repeat, pin, pin_log>>
    /\ UNCHANGED <<rxvars, rtvars>>

\* the call is cancelled while it awaits: CancelledError goes up through
\* transmit_waveform, transmit_binary, transmit_code and do_command, none of
\* which catches it
TxCancel(c) ==
    /\ tx[c].pc \in TxAwaiting
    /\ tx' = [tx EXCEPT ![c].pc = "cancelled"]
    /\ UNCHANGED <<tx_length, tx_repeat, pin, pin_log>>
    /\ UNCHANGED <<rxvars, rtvars>>

\* no transmitter at work
NoTx ==
    /\ tx_length = 0
    /\ tx_repeat = 0
    /\ tx = [c \in Callers |-> IdleCall]
    /\ pin = FALSE
    /\ pin_log = << >>

\* a Transmitter after construction; the pin is low
InitTx ==
    /\ tx_length \in 1 .. MaxBits
    /\ tx_repeat \in 1 .. MaxRepeat
    /\ tx = [c \in Callers |-> IdleCall]
    /\ pin = FALSE
    /\ pin_log = << >>

\* ------------------------------------------------------------------------
\* Receiver._process_stream_ticks: the decode step
\* ------------------------------------------------------------------------
\* lines 131-135: the locals of a fresh decode loop
FreshLocals ==
    [rising_edge_ts |-> Unset, falling_edge_ts |-> Unset,
     last_pulse_start_ts |-> Unset, last_pulse_end_ts |-> Unset,
     code |-> 0]

\* lines 140-143: a tick sets one of the two edge markers
RecordEdge(d, tick) ==
    IF tick.high THEN [d EXCEPT !.rising_edge_ts = tick.time]
                 ELSE [d EXCEPT !.falling_edge_ts = tick.time]

\* line 145
PulseEnded(d) == d.falling_edge_ts > d.rising_edge_ts

\* ------------------------------------------------------------------------
\* Python floats, as far as lines 148-149 need them.  A natural number is a
\* sequence of limbs (digits to the base 2^15), the most significant first;
\* a positive float is [exp, man]: the weight of its leading bit and its
\* mantissa of MantissaBits bits, so its value is
\* man * 2^(exp - MantissaBits + 1).
\* ------------------------------------------------------------------------
LimbBits == 15
LimbBase == 2 ^ LimbBits

\* the limbs of a natural number that fits in an int
RECURSIVE Limbs(_)
Limbs(n) == IF n < LimbBase THEN <<n>>
            ELSE Limbs(n \div LimbBase) \o <<n % LimbBase>>

\* x without its leading zero limbs
Trim(x) ==
    IF \A i \in 1 .. Len(x) : x[i] = 0 THEN <<0>>
    ELSE SubSeq(x, CHOOSE i \in 1 .. Len(x) :
                       x[i] # 0 /\ \A j \in 1 .. (i - 1) : x[j] = 0,
                Len(x))

\* the number of bits of x (trimmed, not 0)
BitLen(x) ==
    LimbBits * (Len(x) - 1)
      + (CHOOSE k \in 1 .. LimbBits : 2 ^ (k - 1) <= x[1] /\ x[1] < 2 ^ k)

\* x divided by d, 1 <= d <= 2^15: the quotient and the remainder
RECURSIVE DivLimbs(_, _, _, _, _)
DivLimbs(x, d, i, rem, acc) ==
    IF i > Len(x) THEN [q |-> acc, r |-> rem]
    ELSE LET v == rem * LimbBase + x[i]
         IN  DivLimbs(x, d, i + 1, v % d, Append(acc, v \div d))

\* x times k, 0 <= k <= 2^15, from the last limb upwards
RECURSIVE MulLimbs(_, _, _, _, _)
MulLimbs(x, k, i, carry, acc) ==
    IF i = 0 THEN <<carry>> \o acc
    ELSE LET v == x[i] * k + carry
         IN  MulLimbs(x, k, i - 1, v \div LimbBase, <<v % LimbBase>> \o acc)

\* x plus y, two numbers of the same number of limbs
RECURSIVE AddLimbs(_, _, _, _, _)
AddLimbs(x, y, i, carry, acc) ==
    IF i = 0 THEN <<carry>> \o acc
    ELSE LET v == x[i] + y[i] + carry
         IN  AddLimbs(x, y, i - 1, v \div LimbBase, <<v % LimbBase>> \o acc)

\* x followed by n zero limbs (x * 2^(15 n)), and x with zero limbs in front
ZeroLimbs(n) == [i \in 1 .. n |-> 0]
PadTo(x, n) == ZeroLimbs(n - Len(x)) \o x

Sum(x, y) ==
    LET n == IF Len(x) > Len(y) THEN Len(x) ELSE Len(y)
    IN  Trim(AddLimbs(PadTo(x, n), PadTo(y, n), n, 0, << >>))

\* x times an int k >= 0
RECURSIVE Product(_, _)
Product(x, k) ==
    IF k < LimbBase THEN Trim(MulLimbs(x, k, Len(x), 0, << >>))
    ELSE Sum(Trim(MulLimbs(x, k % LimbBase, Len(x), 0, << >>)),
             Product(x, k \div LimbBase) \o <<0>>)

\* The float nearest to x * 2^(-scale), for x of more than MantissaBits + 1
\* bits (round to nearest, ties to even); sticky says that the number being
\* rounded lies above x * 2^(-scale), by less than one unit of x.
RoundNearestEven(x, sticky, scale) ==
    LET drop == BitLen(x) - (MantissaBits + 1)
        kept == SubSeq(x, 1, Len(x) - drop \div LimbBits)
        lost == SubSeq(x, Len(x) - drop \div LimbBits + 1, Len(x))
        withGuard == DivLimbs(kept, 2 ^ (drop % LimbBits), 1, 0, << >>)
        guard == withGuard.q[Len(withGuard.q)] % 2
        below == \/ sticky
                 \/ withGuard.r # 0
                 \/ \E i \in 1 .. Len(lost) : lost[i] # 0
        man == DivLimbs(withGuard.q, 2, 1, 0, << >>).q
        odd == man[Len(man)] % 2 = 1
        up == guard = 1 /\ (below \/ odd)
        rounded == IF up THEN Sum(man, <<1>>) ELSE Trim(man)
        carried == BitLen(rounded) > MantissaBits
    IN  [exp |-> BitLen(x) - 1 - scale + (IF carried THEN 1 ELSE 0),
         man |-> IF carried
                 THEN Trim(DivLimbs(rounded, 2, 1, 0, << >>).q)
                 ELSE rounded]

\* n / d in Python for ints n >= 1 and 1 <= d <= 2^15: the float nearest to
\* the quotient (also the float of the decimal literal n/1000)
FloatOfRatio(n, d) ==
    LET scaled == DivLimbs(Limbs(n) \o ZeroLimbs(5), d, 1, 0, << >>)
    IN  RoundNearestEven(Trim(scaled.q), scaled.r # 0, 5 * LimbBits)

\* k * f in Python for an int k >= 1 and a float f: the exact product,
\* rounded
FloatTimesInt(f, k) ==
    LET r == RoundNearestEven(Product(f.man, k) \o <<0>>, FALSE, LimbBits)
    IN  [exp |-> r.exp + f.exp - (MantissaBits - 1), man |-> r.man]

\* a < b for two positive floats
FloatLess(a, b) ==
    \/ a.exp < b.exp
    \/ /\ a.exp = b.exp
       /\ \E k \in 1 .. Len(a.man) :
             /\ a.man[k] < b.man[k]
             /\ \A j \in 1 .. (k - 1) : a.man[j] = b.man[j]

\* the nanoseconds compared with a threshold in microseconds
IsNoise_WrongUnit(high_duration, pulselength, tolerance) ==
    high_duration < (pulselength * tolerance) \div NsPerUs

\* line 149: high_duration_us < rx_pulselength * rx_tolerance, a comparison
\* of two floats.  The quotient and the product are rounded each to the
\* nearest float, so a pulse of exactly tolerance * pulse length is noise for
\* the pulse lengths whose product rounds upwards (3 and 7 with 0.8; not 350,
\* not 3500).  When the two exact values differ they differ by 1/1000 at
\* least, far more than the roundings move them, and the exact order decides.
IsNoise(high_duration, pulselength, tolerance) ==
    IF high_duration <= 0 \/ pulselength * tolerance <= 0
       \/ high_duration # pulselength * tolerance
    THEN high_duration < pulselength * tolerance
    ELSE FloatLess(FloatOfRatio(high_duration, NsPerUs),
                   FloatTimesInt(FloatOfRatio(tolerance, NsPerUs),
                                 pulselength))

\* the comparison of line 166 made inclusive
IsSyncGap_Inclusive(distance, pulselength) ==
    distance >= SyncFactor * pulselength * NsPerUs

\* the bit threshold used for the sync gap
IsSyncGap_BitThreshold(distance, pulselength) ==
    distance > BitFactor * pulselength * NsPerUs

\* line 166: distance_from_last_pulse_end_us > 6 * rx_pulselength
IsSyncGap(distance, pulselength) ==
    distance > SyncFactor * pulselength * NsPerUs

\* line 176: short high followed by long low is a 0
IsZero(last_pulse_duration, distance, pulselength) ==
    /\ last_pulse_duration < BitFactor * pulselength * NsPerUs
    /\ distance > BitFactor * pulselength * NsPerUs

\* the comparisons of line 181 made inclusive
IsOne_Inclusive(last_pulse_duration, distance, pulselength) ==
    /\ last_pulse_duration >= BitFactor * pulselength * NsPerUs
    /\ distance <= BitFactor * pulselength * NsPerUs

\* line 181: long high followed by short low is a 1
IsOne(last_pulse_duration, distance, pulselength) ==
    /\ last_pulse_duration > BitFactor * pulselength * NsPerUs
    /\ distance < BitFactor * pulselength * NsPerUs

\* the 1 bit shifted in but not set (line 183 left out)
AppendBit_NoLowBit(code, last_pulse_duration, distance, pulselength) ==
    IF IsZero(last_pulse_duration, distance, pulselength)
       \/ IsOne(last_pulse_duration, distance, pulselength)
    THEN code * 2 ELSE code

\* lines 176-184: the two independent ifs of the data branch
AppendBit(code, last_pulse_duration, distance, pulselength) ==
    LET c0 == IF IsZero(last_pulse_duration, distance, pulselength)
              THEN code * 2 ELSE code
    IN  IF IsOne(last_pulse_duration, distance, pulselength)
        THEN c0 * 2 + 1 ELSE c0

\* lines 151-154: a noise pulse resets the two edge markers and continues
DiscardNoise(d) ==
    [d EXCEPT !.rising_edge_ts = Unset, !.falling_edge_ts = Unset]

\* the test of line 161 left out
HasPreviousPulse_Always(d) == TRUE

\* line 161: a previous pulse was recorded
HasPreviousPulse(d) == d.last_pulse_end_ts # Unset

\* the right-hand sides of lines 168 and 169 exchanged
CommitCode_Timestamp(d) == d.last_pulse_end_ts

\* line 168: the value written to rx_code on a sync gap
CommitCode(d) == d.code

\* the accumulated code kept after a commit
ResetCode_Keeps(d) == d

\* line 171: the accumulated code starts again after a commit
ResetCode(d) == [d EXCEPT !.code = 0]

\* lines 186-187
RememberPulse(d) ==
    [d EXCEPT !.last_pulse_start_ts = d.rising_edge_ts,
              !.last_pulse_end_ts = d.falling_edge_ts]

\* lines 139-187: one iteration of the loop body.  The result holds the new
\* locals, the new rx_code / rx_code_timestamp and the branch taken.
ProcessTick(d0, rxc, rxts, pulselength, tolerance, tick) ==
    LET d == RecordEdge(d0, tick)
        high_duration == d.falling_edge_ts - d.rising_edge_ts
        distance == d.rising_edge_ts - d.last_pulse_end_ts
        last_pulse_duration == d.last_pulse_end_ts - d.last_pulse_start_ts
    IN  IF ~PulseEnded(d)
        THEN [d |-> d, rx_code |-> rxc, rx_ts |-> rxts, branch |-> "open"]
        ELSE IF IsNoise(high_duration, pulselength, tolerance)
        THEN [d |-> DiscardNoise(d), rx_code |-> rxc, rx_ts |-> rxts,
              branch |-> "noise"]
        ELSE IF ~HasPreviousPulse(d)
        THEN [d |-> RememberPulse(d), rx_code |-> rxc, rx_ts |-> rxts,
              branch |-> "bootstrap"]
        ELSE IF IsSyncGap(distance, pulselength)
        THEN [d |-> RememberPulse(ResetCode(d)),
              rx_code |-> CommitCode(d),
              rx_ts |-> Some(d.last_pulse_end_ts),
              branch |-> "sync"]
        ELSE [d |-> RememberPulse(
                       [d EXCEPT !.code = AppendBit(d.code, last_pulse_duration,
                                                    distance, pulselength)]),
              rx_code |-> rxc, rx_ts |-> rxts, branch |-> "data"]

\* the record of the last decode step
NoHist == [valid |-> FALSE]
StepHist(t, tick, before, rxc, rxts, branch) ==
    [valid |-> TRUE, task |-> t, tick |-> tick, before |-> before,
     rx_before |-> rxc, rx_ts_before |-> rxts, branch |-> branch]

\* ------------------------------------------------------------------------
\* The decode task (an asyncio task running _process_stream_ticks)
\* ------------------------------------------------------------------------
\* status: "unborn"          no such task yet
\*         "created"         create_task was called, the coroutine has not run
\*         "await_interrupt" suspended in digital_interrupt_by_name (line 130)
\*         "await_stream"    suspended in stream_ticks (line 136)
\*         "await_tick"      suspended in the async for, awaiting a tick
\*         "done_break"      left the loop by the break of line 138
\*         "done_end"        the stream ended, the loop fell through
\*         "done_cancelled"  CancelledError caught (lines 188-189)
\*         "done_error"      another exception caught and logged (190-191)
\* must_cancel: Task.cancel() was called and CancelledError is still to be
\* thrown into the coroutine at its next step.
Unborn == [owner |-> "-", status |-> "unborn", must_cancel |-> FALSE,
           d |-> FreshLocals]

Suspended == {"await_interrupt", "await_stream", "await_tick"}
Alive == {"created"} \cup Suspended

\* the task runs one step unless a cancellation is pending
CanStep(t, status) == tasks[t].status = status /\ ~tasks[t].must_cancel

\* the first step of the coroutine, up to the await of line 130
TaskStart(t) ==
    /\ CanStep(t, "created")
    /\ tasks' = [tasks EXCEPT ![t].status = "await_interrupt"]
    /\ UNCHANGED <<stop_event, stream_task, rx_code, rx_code_timestamp,
                   rx_pulselength, rx_tolerance, clock, nticks, hist>>
    /\ UNCHANGED <<rtvars, txvars>>

\* lines 130-136: the interrupt is there, the locals are set, stream_ticks
TaskGotInterrupt(t) ==
    /\ CanStep(t, "await_interrupt")
    /\ tasks' = [tasks EXCEPT ![t].status = "await_stream",
                              ![t].d = FreshLocals]
    /\ UNCHANGED <<stop_event, stream_task, rx_code, rx_code_timestamp,
                   rx_pulselength, rx_tolerance, clock, nticks, hist>>
    /\ UNCHANGED <<rtvars, txvars>>

\* line 136: the stream is there, the loop awaits its first tick
TaskGotStream(t) ==
    /\ CanStep(t, "await_stream")
    /\ tasks' = [tasks EXCEPT ![t].status = "await_tick"]
    /\ UNCHANGED <<stop_event, stream_task, rx_code, rx_code_timestamp,
                   rx_pulselength, rx_tolerance, clock, nticks, hist>>
    /\ UNCHANGED <<rtvars, txvars>>

\* lines 136-187: the loop takes one tick off its stream; it breaks when the
\* stop event is set (lines 137-138) and decodes the tick otherwise.
TaskTick(t, tick) ==
    LET i == tasks[t].owner
        r == ProcessTick(tasks[t].d, rx_code[i], rx_code_timestamp[i],
                         rx_pulselength[i], rx_tolerance[i], tick)
    IN  /\ CanStep(t, "await_tick")
        /\ clock' = [clock EXCEPT ![i] = tick.time]
        /\ nticks' = nticks + 1
        /\ IF stop_event
           THEN /\ tasks' = [tasks EXCEPT ![t].status = "done_break"]
                /\ UNCHANGED <<rx_code, rx_code_timestamp, hist>>
           ELSE /\ tasks' = [tasks EXCEPT ![t].d = r.d]
                /\ rx_code' = [rx_code EXCEPT ![i] = r.rx_code]
                /\ rx_code_timestamp' =
                       [rx_code_timestamp EXCEPT ![i] = r.rx_ts]
                /\ hist' = StepHist(t, tick, tasks[t].d, rx_code[i],
                                    rx_code_timestamp[i], r.branch)
        /\ UNCHANGED <<stop_event, stream_task, rx_pulselength, rx_tolerance>>
        /\ UNCHANGED txvars

\* line 136: the stream ends (StopAsyncIteration), the loop falls through
TaskStreamEnd(t) ==
    /\ CanStep(t, "await_tick")
    /\ tasks' = [tasks EXCEPT ![t].status = "done_end"]
    /\ UNCHANGED <<stop_event, stream_task, rx_code, rx_code_timestamp,
                   rx_pulselength, rx_tolerance, clock, nticks, hist>>
    /\ UNCHANGED <<rtvars, txvars>>

\* lines 190-191: the board raises at one of the awaits; logged, task ends
TaskStreamFault(t) ==
    /\ tasks[t].status \in Suspended
    /\ ~tasks[t].must_cancel
    /\ tasks' = [tasks EXCEPT ![t].status = "done_error"]
    /\ UNCHANGED <<stop_event, stream_task, rx_code, rx_code_timestamp,
                   rx_pulselength, rx_tolerance, clock, nticks, hist>>
    /\ UNCHANGED <<rtvars, txvars>>

\* the cancellation caught by the handler of lines 190-191
TaskCancelled_AsError(t) ==
    /\ tasks[t].status \in Alive
    /\ tasks[t].must_cancel
    /\ tasks' = [tasks EXCEPT ![t].status = "done_error",
                              ![t].must_cancel = FALSE]
    /\ UNCHANGED <<stop_event, stream_task, rx_code, rx_code_timestamp,
                   rx_pulselength, rx_tolerance, clock, nticks, hist>>
    /\ UNCHANGED <<rtvars, txvars>>

\* lines 188-189: the pending cancellation is delivered at the task's next
\* step (a task that never ran is cancelled without running)
TaskCancelled(t) ==
    /\ tasks[t].status \in Alive
    /\ tasks[t].must_cancel
    /\ tasks' = [tasks EXCEPT ![t].status = "done_cancelled",
                              ![t].must_cancel = FALSE]
    /\ UNCHANGED <<stop_event, stream_task, rx_code, rx_code_timestamp,
                   rx_pulselength, rx_tolerance, clock, nticks, hist>>
    /\ UNCHANGED <<rtvars, txvars>>

\* ------------------------------------------------------------------------
\* Receiver.reconfigure, Receiver._stop_stream_task, Receiver.close
\* ------------------------------------------------------------------------
\* Task.cancel(): a no-op on a finished task
CancelTask(tk, t) ==
    IF tk[t].status \in Alive THEN [tk EXCEPT ![t].must_cancel = TRUE] ELSE tk

\* lines 122-126, applied to the task table
StopStreamTask(tk, i) ==
    IF stream_task[i] # None THEN CancelTask(tk, stream_task[i][1]) ELSE tk

\* the task ids not used yet
FreeTasks == {t \in TaskIds : tasks[t].status = "unborn"}

\* lines 96-120 (also the construction of an instance by new()): stop the old
\* task if there is one, take the pulse length and the tolerance of the
\* configuration when it holds them, clear the stop event, start a new task.
Reconfigure(i, pulselength, tolerance) ==
    /\ FreeTasks # {}
    /\ LET t == CHOOSE x \in FreeTasks : \A y \in FreeTasks : x <= y
           stopped == StopStreamTask(tasks, i)
       IN  /\ tasks' = [stopped EXCEPT ![t] =
                           [owner |-> i, status |-> "created",
                            must_cancel |-> FALSE, d |-> FreshLocals]]
           /\ stream_task' = [stream_task EXCEPT ![i] = Some(t)]
    /\ rx_pulselength' = [rx_pulselength EXCEPT ![i] =
           IF pulselength = None THEN @ ELSE pulselength[1]]
    /\ rx_tolerance' = [rx_tolerance EXCEPT ![i] =
           IF tolerance = None THEN @ ELSE tolerance[1]]
    /\ stop_event' = FALSE
    /\ UNCHANGED <<rx_code, rx_code_timestamp, clock, nticks, hist>>
    /\ UNCHANGED <<rtvars, txvars>>

\* lines 201-202 with 122-126
Close(i) ==
    /\ stop_event' = TRUE
    /\ tasks' = StopStreamTask(tasks, i)
    /\ stream_task' = [stream_task EXCEPT ![i] = None]
    /\ UNCHANGED <<rx_code, rx_code_timestamp, rx_pulselength, rx_tolerance,
                   clock, nticks, hist>>
    /\ UNCHANGED <<rtvars, txvars>>

\* ------------------------------------------------------------------------
\* The free edge source: any level, after a delay out of a small set
\* ------------------------------------------------------------------------
UnitOf(i) == rx_pulselength[i] * NsPerUs
Unit == UnitOf("A")
\* delays before a falling edge that follows a rising edge: half a unit and
\* 4/5 of a unit (around the noise threshold), one, two and three units
HighDelays == {Unit \div 2, (4 * Unit) \div 5, Unit, 2 * Unit, 3 * Unit}
\* delays before a rising edge: one, two, three units (data gaps), six units
\* (the sync threshold itself) and seven units (a sync gap)
GapDelays == {Unit, 2 * Unit, 3 * Unit, 6 * Unit, 7 * Unit}

\* the class attributes of Receiver (lines 44-55)
ClassDefaults ==
    /\ stop_event = FALSE
    /\ stream_task = [i \in Instances |-> None]
    /\ rx_code = [i \in Instances |-> 0]
    /\ rx_code_timestamp = [i \in Instances |-> None]
    /\ rx_pulselength = [i \in Instances |-> DefaultRxPulselength]
    /\ rx_tolerance = [i \in Instances |-> DefaultToleranceMilli]
    /\ clock = [i \in Instances |-> 0]
    /\ nticks = 0
    /\ hist = NoHist

\* no round trip in progress
NoRoundTrip ==
    /\ scen = [kind |-> "none"]
    /\ timeline = << >>
    /\ consumed = 0

\* the decode loop under study: task 1 of instance A
D == tasks[1].d
RxCode == rx_code["A"]

\* the pulse lengths instance A is configured with: the default, and one
\* whose product with the tolerance 0.8 is rounded upwards (7 * 0.8 is
\* 5.6000000000000005 in floats)
RxPulselengths == {DefaultRxPulselength, 7}

\* Instance A was constructed and its decode task awaits its first tick.
InitRx ==
    /\ stop_event = FALSE
    /\ stream_task = [i \in Instances |-> IF i = "A" THEN Some(1) ELSE None]
    /\ rx_code = [i \in Instances |-> 0]
    /\ rx_code_timestamp = [i \in Instances |-> None]
    /\ \E p \in RxPulselengths :
          rx_pulselength = [i \in Instances |->
                              IF i = "A" THEN p ELSE DefaultRxPulselength]
    /\ rx_tolerance = [i \in Instances |-> DefaultToleranceMilli]
    /\ tasks = [t \in TaskIds |->
                  IF t = 1 THEN [owner |-> "A", status |-> "await_tick",
                                 must_cancel |-> FALSE, d |-> FreshLocals]
                  ELSE Unborn]
    /\ clock = [i \in Instances |-> 0]
    /\ nticks = 0
    /\ hist = NoHist
    /\ NoRoundTrip
    /\ NoTx

\* the level of the last edge event delivered (low before the first one)
LastLevel == hist.valid /\ hist.tick.high

\* An edge of the opposite level comes after any of the delays above; the
\* source may also repeat a level (two rising or two falling edges in a row),
\* one unit after the last edge.
Delays(high) ==
    IF high = LastLevel THEN {Unit}
    ELSE IF high THEN GapDelays ELSE HighDelays

RxTick ==
    /\ nticks < MaxTicks
    /\ \E high \in BOOLEAN :
         \E delay \in Delays(high) :
            TaskTick(1, [high |-> high, time |-> clock["A"] + delay])
    /\ UNCHANGED rtvars

NextRx == RxTick

SpecRx == InitRx /\ [][NextRx]_vars

\* The last step, read off the tick and the state before it: it closed a
\* pulse (a falling edge later than the rising marker) that is not noise ...
ClosedPulse ==
    /\ hist.valid
    /\ ~hist.tick.high
    /\ hist.tick.time > hist.before.rising_edge_ts
    /\ ~IsNoise(hist.tick.time - hist.before.rising_edge_ts,
                rx_pulselength["A"], rx_tolerance["A"])
\* ... the high duration h of the pulse being classified (the previous one)
\* and the gap g that followed it, in nanoseconds
ClassifiedHigh ==
    hist.before.last_pulse_end_ts - hist.before.last_pulse_start_ts
ClassifiedGap == hist.before.rising_edge_ts - hist.before.last_pulse_end_ts
\* ... and it was a step on a data gap
DataGapStep ==
    /\ ClosedPulse
    /\ hist.before.last_pulse_end_ts # Unset
    /\ ClassifiedGap <= 6 * Unit

\* C7: bit classification on a data gap.  The accumulated code becomes
\* 2 * code when h < 2 units and g > 2 units, 2 * code + 1 when h > 2 units
\* and g < 2 units, and is unchanged otherwise (so h = g = 2 units appends
\* nothing, and no step appends two bits).
C7_BitClassification ==
    DataGapStep =>
        D.code = IF ClassifiedHigh < 2 * Unit /\ ClassifiedGap > 2 * Unit
                 THEN 2 * hist.before.code
                 ELSE IF ClassifiedHigh > 2 * Unit /\ ClassifiedGap < 2 * Unit
                 THEN 2 * hist.before.code + 1
                 ELSE hist.before.code

\* a pulse of exactly 2 units followed by a gap of exactly 2 units was
\* classified while the accumulated code was 1, and the code is still 1
C7_Witness ==
    /\ DataGapStep
    /\ ClassifiedHigh = 2 * Unit /\ ClassifiedGap = 2 * Unit
    /\ hist.before.code = 1
    /\ D.code = 1

\* the last step closed a non-noise pulse more than 6 units after the end of
\* a previous pulse
SyncGapStep ==
    /\ ClosedPulse
    /\ hist.before.last_pulse_end_ts # Unset
    /\ ClassifiedGap > 6 * Unit

\* C12: the accumulated code.  A decode step changes the accumulated code c
\* only to c, 2c, 2c + 1 or 0; a step on a sync gap leaves it 0; and a code
\* other than 0 becomes 0 only in a step on a sync gap, which commits it.
C12_AccumulatedCode ==
    hist.valid =>
        /\ D.code \in {hist.before.code, 2 * hist.before.code,
                       2 * hist.before.code + 1, 0}
        /\ SyncGapStep => (D.code = 0 /\ RxCode = hist.before.code)
        /\ (hist.before.code # 0 /\ D.code = 0) => SyncGapStep

\* a step on a sync gap has reset an accumulated code of 1
C12_Witness ==
    /\ SyncGapStep
    /\ hist.before.code = 1
    /\ D.code = 0

\* C13: rx_code is written only by a step on a sync gap (a gap strictly
\* longer than 6 units after a recorded pulse), which writes the accumulated
\* code held before the step; every other step leaves rx_code and its time
\* stamp as they were.
C13_LatestCodeOnSync ==
    hist.valid =>
        IF SyncGapStep
        THEN RxCode = hist.before.code
        ELSE /\ RxCode = hist.rx_before
             /\ rx_code_timestamp["A"] = hist.rx_ts_before

\* a pulse closed exactly 6 units after the previous one while the
\* accumulated code was 1: a data gap, rx_code is still 0
C13_Witness ==
    /\ ClosedPulse
    /\ hist.before.last_pulse_end_ts # Unset
    /\ ClassifiedGap = 6 * Unit
    /\ hist.before.code = 1
    /\ RxCode = 0

\* a pulse is open: a rising edge was recorded and no falling edge after it
OpenPulse(d) ==
    d.rising_edge_ts # Unset /\ d.rising_edge_ts > d.falling_edge_ts

\* C14: edge pairing.  A falling edge that finds no open pulse changes
\* neither the accumulated code, nor rx_code, nor the previous-pulse markers.
C14_EdgePairing ==
    (hist.valid /\ ~hist.tick.high /\ ~OpenPulse(hist.before))
        => /\ D.code = hist.before.code
           /\ RxCode = hist.rx_before
           /\ D.last_pulse_start_ts = hist.before.last_pulse_start_ts
           /\ D.last_pulse_end_ts = hist.before.last_pulse_end_ts

\* C18: bootstrap.  The step that closes a non-noise pulse while no previous
\* pulse is recorded records the pulse's start and end and changes neither
\* the accumulated code, nor rx_code, nor its time stamp.
C18_Bootstrap ==
    (ClosedPulse /\ hist.before.last_pulse_end_ts = Unset)
        => /\ D.last_pulse_start_ts = hist.before.rising_edge_ts
           /\ D.last_pulse_end_ts = hist.tick.time
           /\ D.code = hist.before.code
           /\ RxCode = hist.rx_before
           /\ rx_code_timestamp["A"] = hist.rx_ts_before

\* the first pulse, three units long, closed after a noise pulse
C18_Witness ==
    /\ ClosedPulse
    /\ hist.before.last_pulse_end_ts = Unset
    /\ hist.before.rising_edge_ts # Unset
    /\ hist.tick.time - hist.before.rising_edge_ts = 3 * Unit
    /\ nticks = 4
    /\ D.last_pulse_end_ts = hist.tick.time

\* ------------------------------------------------------------------------
\* Round trip: the decoder fed with the edges of a transmission
\* ------------------------------------------------------------------------
\* the time at which the pulse pair k of a timeline starts (ns)
RECURSIVE PairStart(_, _, _)
PairStart(pairs, k, t0) ==
    IF k = 1 THEN t0
    ELSE PairStart(pairs, k - 1, t0)
         + (pairs[k - 1][1] + pairs[k - 1][2]) * NsPerUs

\* the jitter-free edge events of a sequence of pulse pairs: a rising edge
\* where the pair starts, a falling edge after its high hold
EdgesOf(pairs, t0) ==
    [e \in 1 .. 2 * Len(pairs) |->
        LET k == (e + 1) \div 2
        IN  IF e % 2 = 1
            THEN [high |-> TRUE, time |-> PairStart(pairs, k, t0)]
            ELSE [high |-> FALSE,
                  time |-> PairStart(pairs, k, t0) + pairs[k][1] * NsPerUs]]

\* a pulse of a quarter of a unit put into the low hold of pair k, a quarter
\* of a unit after the falling edge (k = 0: no such pulse)
WithNoise(edges, k, unit) ==
    IF k = 0 THEN edges
    ELSE SubSeq(edges, 1, 2 * k)
         \o << [high |-> TRUE, time |-> edges[2 * k].time + unit \div 4],
               [high |-> FALSE, time |-> edges[2 * k].time + unit \div 2] >>
         \o SubSeq(edges, 2 * k + 1, Len(edges))

\* the pulse units of the round trip: that of the Transmitter's protocol 1
\* and that of the Receiver's protocol 1
PulseUnits == {TxProtocols[tx_protocol].pulselength, RxProtocol1Pulselength}
StartTimes == {0, 5000}

ScenPairs(sc) ==
    PulsePairs(FormatBin(sc.code, sc.bits), sc.bits, sc.repeat, sc.unit)

\* hand-made timelines: up to MaxFreePairs pulse pairs whose high hold is
\* one, two or three units and whose low hold is one, three or seven units
FreePairs(unit) ==
    UNION { [1 .. n -> {unit, 2 * unit, 3 * unit} \X {unit, 3 * unit, 7 * unit}]
            : n \in 1 .. MaxFreePairs }

\* the timeline is that of a transmission ...
InitTransmitted ==
    \E unit \in PulseUnits, bits \in 1 .. MaxBits, repeat \in 1 .. MaxRepeat,
       t0 \in StartTimes :
      \E code \in 0 .. (2 ^ bits - 1), noise \in 0 .. repeat * (bits + 1) :
         /\ scen = [kind |-> "tx", unit |-> unit, bits |-> bits,
                    repeat |-> repeat, code |-> code, t0 |-> t0,
                    noise |-> noise]
         /\ timeline = WithNoise(EdgesOf(ScenPairs(scen), t0), noise,
                                 unit * NsPerUs)

\* ... or a hand-made one; in both a noise pulse may sit in one low hold
InitFree ==
    \E unit \in PulseUnits, t0 \in StartTimes :
      \E pairs \in FreePairs(unit) :
        \E noise \in 0 .. Len(pairs) :
         /\ scen = [kind |-> "free", unit |-> unit, pairs |-> pairs,
                    t0 |-> t0, noise |-> noise]
         /\ timeline = WithNoise(EdgesOf(pairs, t0), noise, unit * NsPerUs)

InitRoundTrip ==
    /\ InitTransmitted \/ InitFree
    /\ rx_pulselength = [i \in Instances |->
                           IF i = "A" THEN scen.unit ELSE DefaultRxPulselength]
    /\ consumed = 0
    /\ stop_event = FALSE
    /\ stream_task = [i \in Instances |-> IF i = "A" THEN Some(1) ELSE None]
    /\ rx_code = [i \in Instances |-> 0]
    /\ rx_code_timestamp = [i \in Instances |-> None]
    /\ rx_tolerance = [i \in Instances |-> DefaultToleranceMilli]
    /\ tasks = [t \in TaskIds |->
                  IF t = 1 THEN [owner |-> "A", status |-> "await_tick",
                                 must_cancel |-> FALSE, d |-> FreshLocals]
                  ELSE Unborn]
    /\ clock = [i \in Instances |-> 0]
    /\ nticks = 0
    /\ hist = NoHist
    /\ NoTx

\* the decode loop takes the next edge event of the timeline
RoundTripTick ==
    /\ consumed < Len(timeline)
    /\ TaskTick(1, timeline[consumed + 1])
    /\ consumed' = consumed + 1
    /\ UNCHANGED <<scen, timeline>>

NextRoundTrip == RoundTripTick

SpecRoundTrip == InitRoundTrip /\ [][NextRoundTrip]_vars

\* the timeline without its noise pulse, and the decode loop run over the
\* first n edge events of a timeline from the fresh state
CleanTimeline ==
    IF scen.noise = 0 THEN timeline
    ELSE SubSeq(timeline, 1, 2 * scen.noise)
         \o SubSeq(timeline, 2 * scen.noise + 3, Len(timeline))

RECURSIVE RunTicks(_, _)
RunTicks(ticks, n) ==
    IF n = 0
    THEN [d |-> FreshLocals, rx_code |-> 0, rx_ts |-> None, branch |-> "open"]
    ELSE LET r == RunTicks(ticks, n - 1)
         IN  ProcessTick(r.d, r.rx_code, r.rx_ts, rx_pulselength["A"],
                         rx_tolerance["A"], ticks[n])

\* C1: round trip.  For every code below 2^bits, once the decode loop has
\* taken the falling edge of the first pulse after the first sync gap of the
\* transmitted, jitter-free timeline (the edge 2 * (bits + 2), which exists
\* when the transmission repeats), rx_code is the code that was transmitted,
\* and it stays so for the rest of the timeline.
C1_RoundTrip ==
    (scen.kind = "tx" /\ scen.noise = 0 /\ consumed >= 2 * (scen.bits + 2))
        => RxCode = scen.code

C1_Witness ==
    /\ scen.kind = "tx" /\ scen.noise = 0
    /\ scen.bits = MaxBits /\ scen.code = 5
    /\ consumed = 2 * (scen.bits + 2)
    /\ hist.branch = "sync"
    /\ RxCode = 5

\* the timeline of the single-repetition scenario: code 0b10, two bits, one
\* repetition, pulse unit 350
C2Pairs == << <<1050, 350>>, <<350, 1050>>, <<350, 10850>> >>
C2Unit == RxProtocol1Pulselength
IsC2Prefix ==
    /\ scen.noise = 0
    /\ rx_pulselength["A"] = C2Unit
    /\ Len(timeline) >= 2 * Len(C2Pairs)
    /\ SubSeq(timeline, 1, 2 * Len(C2Pairs)) = EdgesOf(C2Pairs, scen.t0)

\* C2 as stated: the three pulse pairs of the scenario and no further edge
\* leave rx_code = 2 once the timeline has been consumed.
C2_Original ==
    (IsC2Prefix /\ Len(timeline) = 2 * Len(C2Pairs)
     /\ consumed = Len(timeline)) => RxCode = 2

\* a further pulse starts where the low hold of the scenario's sync pair ends
C2NextPulse ==
    /\ Len(timeline) >= 2 * Len(C2Pairs) + 2
    /\ timeline[2 * Len(C2Pairs) + 1] =
          [high |-> TRUE,
           time |-> PairStart(C2Pairs, Len(C2Pairs), scen.t0)
                    + (C2Pairs[Len(C2Pairs)][1] + C2Pairs[Len(C2Pairs)][2])
                      * NsPerUs]

\* C2 as amended: the three pulse pairs alone leave the accumulated code 2
\* and rx_code 0; rx_code becomes 2 when one more pulse closes after the
\* sync gap (here the first pulse of a second repetition).
C2_Amended ==
    IsC2Prefix =>
        /\ consumed = 2 * Len(C2Pairs) => (D.code = 2 /\ RxCode = 0)
        /\ (C2NextPulse /\ consumed >= 2 * Len(C2Pairs) + 2) => RxCode = 2

C2_Witness ==
    /\ IsC2Prefix
    /\ scen.kind = "tx" /\ scen.code = 2 /\ scen.bits = 2 /\ scen.repeat = 1
    /\ Len(timeline) = 2 * Len(C2Pairs)
    /\ consumed = Len(timeline)
    /\ D.code = 2 /\ RxCode = 0

\* the last step closed a high pulse shorter than tolerance * pulse unit
NoisePulseClosed ==
    /\ hist.valid
    /\ ~hist.tick.high
    /\ hist.before.rising_edge_ts # Unset
    /\ hist.tick.time > hist.before.rising_edge_ts
    /\ (hist.tick.time - hist.before.rising_edge_ts)
          < rx_pulselength["A"] * rx_tolerance["A"]

\* the decode loop is not inside the noise pulse of the timeline
OutsideNoise == scen.noise = 0 \/ consumed # 2 * scen.noise + 1
\* the number of edges of the clean timeline taken so far
CleanConsumed ==
    IF scen.noise = 0 \/ consumed <= 2 * scen.noise THEN consumed
    ELSE consumed - 2

\* C6: noise rejection.  A step that closes a high pulse shorter than
\* tolerance * pulse unit leaves the accumulated code, rx_code and the
\* previous-pulse markers as they were; and with such a pulse put into a low
\* hold of a timeline of valid pulses, the accumulated code, the
\* previous-pulse markers, rx_code and its time stamp are, after every edge,
\* those of the decode loop run over the timeline without the pulse.
C6_NoiseRejection ==
    /\ NoisePulseClosed =>
          /\ D.code = hist.before.code
          /\ RxCode = hist.rx_before
          /\ D.last_pulse_start_ts = hist.before.last_pulse_start_ts
          /\ D.last_pulse_end_ts = hist.before.last_pulse_end_ts
    /\ OutsideNoise =>
          LET ref == RunTicks(CleanTimeline, CleanConsumed)
          IN  /\ D.code = ref.d.code
              /\ D.last_pulse_start_ts = ref.d.last_pulse_start_ts
              /\ D.last_pulse_end_ts = ref.d.last_pulse_end_ts
              /\ RxCode = ref.rx_code
              /\ rx_code_timestamp["A"] = ref.rx_ts

\* a noise pulse between the bits of a transmission, and the code committed
\* after it
C6_Witness ==
    /\ scen.kind = "tx" /\ scen.noise = 2 /\ scen.bits = MaxBits
    /\ scen.code = 5
    /\ consumed > 2 * (scen.bits + 2) + 2
    /\ RxCode = 5

\* every low hold of the hand-made timeline is longer than 6 units
SyncOnlyTimeline ==
    /\ scen.kind = "free"
    /\ \A k \in 1 .. Len(scen.pairs) :
          scen.pairs[k][2] * NsPerUs > 6 * rx_pulselength["A"] * NsPerUs

\* C8: sync-only input.  When every two consecutive valid pulses of the
\* timeline are more than 6 units apart (with or without a noise pulse in
\* between), rx_code is 0 after every edge.
C8_SyncOnly == SyncOnlyTimeline => RxCode = 0

\* the second pulse of such a timeline has closed and committed
C8_Witness ==
    /\ SyncOnlyTimeline
    /\ Len(scen.pairs) >= 2
    /\ hist.valid /\ hist.branch = "sync"
    /\ rx_code_timestamp["A"] # None
    /\ RxCode = 0

\* ------------------------------------------------------------------------
\* Several Receiver instances, constructed, reconfigured and closed
\* ------------------------------------------------------------------------
InitInst ==
    /\ ClassDefaults
    /\ tasks = [t \in TaskIds |-> Unborn]
    /\ NoRoundTrip
    /\ NoTx

\* the edge events of a pin when several instances run: a rising or a
\* falling edge one unit after the last edge of that pin
InstTick(t) ==
    /\ nticks < MaxInstTicks
    /\ \E high \in BOOLEAN :
         TaskTick(t, [high |-> high,
                      time |-> clock[tasks[t].owner] + UnitOf(tasks[t].owner)])
    /\ UNCHANGED rtvars

NextInst ==
    \/ \E i \in Instances : Reconfigure(i, None, None)
    \/ \E i \in Instances : Close(i)
    \/ \E t \in TaskIds : TaskStart(t)
    \/ \E t \in TaskIds : TaskGotInterrupt(t)
    \/ \E t \in TaskIds : TaskGotStream(t)
    \/ \E t \in TaskIds : InstTick(t)
    \/ \E t \in TaskIds : TaskStreamEnd(t)
    \/ \E t \in TaskIds : TaskStreamFault(t)
    \/ \E t \in TaskIds : TaskCancelled(t)

SpecInst == InitInst /\ [][NextInst]_vars

\* C10: instances do not interact.  A decode task that is still the
\* stream_task of its instance (the instance was neither closed nor
\* reconfigured since it started the task) is running, or has ended because
\* its own stream ended or failed.
C10_NoInteraction ==
    \A t \in TaskIds :
        (tasks[t].status # "unborn" /\ stream_task[tasks[t].owner] = Some(t))
            => tasks[t].status \in Alive \cup {"done_end", "done_error"}

\* the tasks of instance i that have not finished
LiveTasks(i) ==
    {t \in TaskIds : tasks[t].owner = i /\ tasks[t].status \in Alive}

\* C11: at most one decode task per receiving pin.  The old task of an
\* instance has terminated before the new one is started: an instance never
\* has two unfinished decode tasks.
C11_OldTaskTerminated ==
    \A i \in Instances : Cardinality(LiveTasks(i)) <= 1

\* only the task that is the stream_task of its instance, with no
\* cancellation pending, changes its locals or writes rx_code
OnlyCurrentTaskDecodes ==
    [][\A t \in TaskIds :
          (\/ tasks'[t].d # tasks[t].d
           \/ (hist' # hist /\ hist'.task = t))
          => \/ tasks[t].status = "unborn"
             \/ /\ stream_task[tasks[t].owner] = Some(t)
                /\ ~tasks[t].must_cancel]_vars

\* ------------------------------------------------------------------------
\* The life of the decode loop: instance A with the free edge source, the
\* end and the faults of its stream, close and reconfigure
\* ------------------------------------------------------------------------
\* the edges alternate; a falling edge comes half a unit (noise), one or
\* three units after the rising edge, a rising edge one or three units (data
\* gaps) or seven units (a sync gap) after the falling edge
LoopDelays(high) ==
    IF high THEN {Unit, 3 * Unit, 7 * Unit} ELSE {Unit \div 2, Unit, 3 * Unit}

LoopTick(t) ==
    /\ nticks < MaxLoopTicks
    /\ LET high == ~LastLevel
       IN  \E delay \in LoopDelays(high) :
              TaskTick(t, [high |-> high, time |-> clock["A"] + delay])
    /\ UNCHANGED rtvars

NextLoop ==
    \/ Reconfigure("A", None, None)
    \/ Close("A")
    \/ \E t \in TaskIds : TaskStart(t)
    \/ \E t \in TaskIds : TaskGotInterrupt(t)
    \/ \E t \in TaskIds : TaskGotStream(t)
    \/ \E t \in TaskIds : LoopTick(t)
    \/ \E t \in TaskIds : TaskStreamEnd(t)
    \/ \E t \in TaskIds : TaskStreamFault(t)
    \/ \E t \in TaskIds : TaskCancelled(t)

\* instance A with the default pulse length
InitLoop == InitRx /\ rx_pulselength["A"] = DefaultRxPulselength

SpecLoop == InitLoop /\ [][NextLoop]_vars

Finished == {"done_break", "done_end", "done_cancelled", "done_error"}

\* C17: how the decode loop ends.  A step that decodes an edge event leaves
\* the loop waiting for the next one, and a noise pulse changes neither the
\* accumulated code nor the previous-pulse markers; the loop leaves its wait
\* only by the break on the stop event, by a cancellation, by the end of the
\* stream or by a fault of the stream; a pending cancellation ends the task
\* as cancelled, not as failed; a finished task never runs again, and a new
\* task appears only as the stream_task set by a reconfigure.
C17_LoopTermination ==
    [][\A t \in TaskIds :
          /\ (hist' # hist /\ hist'.task = t)
                => /\ tasks'[t].status = "await_tick"
                   /\ hist'.branch = "noise"
                        => /\ tasks'[t].d.code = tasks[t].d.code
                           /\ tasks'[t].d.last_pulse_start_ts
                                 = tasks[t].d.last_pulse_start_ts
                           /\ tasks'[t].d.last_pulse_end_ts
                                 = tasks[t].d.last_pulse_end_ts
          /\ (tasks[t].status = "await_tick"
                 /\ tasks'[t].status # "await_tick")
                => /\ hist' = hist
                   /\ \/ tasks'[t].status = "done_break" /\ stop_event
                      \/ tasks'[t].status = "done_cancelled"
                            /\ tasks[t].must_cancel
                      \/ tasks'[t].status \in {"done_end", "done_error"}
          /\ (tasks[t].must_cancel /\ tasks'[t].status # tasks[t].status)
                => tasks'[t].status = "done_cancelled"
          /\ tasks[t].status \in Finished => tasks'[t] = tasks[t]
          /\ (tasks[t].status = "unborn" /\ tasks'[t].status # "unborn")
                => /\ tasks'[t].status = "created"
                   /\ stream_task' # stream_task
                   /\ stream_task'[tasks'[t].owner] = Some(t)
                   /\ ~stop_event']_vars

\* the first loop decoded a sync step and then ended on a fault of its
\* stream; it stayed finished, and the task started by a later reconfigure
\* waits for its first edge event
C17_Witness ==
    /\ tasks[1].status = "done_error"
    /\ hist.valid /\ hist.task = 1 /\ hist.branch = "sync"
    /\ stream_task["A"] = Some(2)
    /\ tasks[2].status = "await_tick"

\* ------------------------------------------------------------------------
\* One transmit request on a Transmitter
\* ------------------------------------------------------------------------
\* the codes of the requests: those of tx_length bits and those of up to two
\* bits more
MaxCode == 2 ^ (tx_length + 2) - 1

InitTxOnly ==
    /\ InitTx
    /\ ClassDefaults
    /\ tasks = [t \in TaskIds |-> Unborn]
    /\ NoRoundTrip

NextTx ==
    \/ \E cmd \in Commands(MaxCode) : DoCommand("c1", cmd)
    \/ TxGotGpio("c1")
    \/ TxSetHigh("c1")
    \/ TxSleep("c1")
    \/ TxSetLow("c1")
    \/ TxCancel("c1")

SpecTx == InitTxOnly /\ [][NextTx]_vars

\* the request of caller c carries a code, and the number of pin writes of c
HasCode(c) == tx[c].pc # "idle" /\ tx[c].command.kind # "none"
WritesOf(c) == Cardinality({k \in 1 .. Len(pin_log) : pin_log[k].by = c})
\* the pin writes of a whole transmission
WholeTransmission == 2 * tx_repeat * (tx_length + 1)

\* C3: a request whose code does not fit in tx_length bits writes nothing to
\* the pin and returns the failure InvalidCode.
C3_RejectsOversize ==
    \A c \in Callers :
        (HasCode(c) /\ tx[c].command.val >= 2 ^ tx_length)
            => /\ WritesOf(c) = 0
               /\ tx[c].pc = "returned" => tx[c].result = "InvalidCode"

\* C4: a request with a code below 2^tx_length that has returned has
\* returned success, after all the pin writes of tx_repeat repetitions of
\* tx_length bits and a sync.
C4_ReturnsSuccess ==
    \A c \in Callers :
        (HasCode(c) /\ tx[c].command.val < 2 ^ tx_length
         /\ tx[c].pc = "returned")
            => /\ tx[c].result = "success"
               /\ WritesOf(c) = WholeTransmission

\* C5: after a request was cancelled the pin is low.
C5_CancelLeavesLow ==
    \A c \in Callers : tx[c].pc = "cancelled" => pin = FALSE

\* bit pos (0 = most significant) of the width-bit representation of code
BitOf(code, width, pos) == (code \div (2 ^ (width - 1 - pos))) % 2

\* the hold that follows the j-th pin write of a transmission of `code`:
\* write 2k-1 is the high and write 2k the low of pair k; pair k is the bit
\* (k - 1) % (tx_length + 1) of its repetition, or the sync after the bits
ExpectedHold(code, j) ==
    LET k == (j + 1) \div 2
        pos == (k - 1) % (tx_length + 1)
        profile == TxProtocols[tx_protocol]
        mult == IF pos = tx_length
                THEN <<profile.sync_high, profile.sync_low>>
                ELSE IF BitOf(code, tx_length, pos) = 1
                THEN <<profile.one_high, profile.one_low>>
                ELSE <<profile.zero_high, profile.zero_low>>
    IN  mult[IF j % 2 = 1 THEN 1 ELSE 2] * profile.pulselength

\* C9: encoder ordering.  The writes of a transmission of a code below
\* 2^tx_length are, in order, high and low of one pair per bit from the most
\* significant to the least significant bit, then of one sync pair, for each
\* repetition in turn; each hold is multiplier * pulse unit; and the
\* transmission that returned has written tx_repeat * (tx_length + 1) pairs.
C9_EncoderOrdering ==
    (HasCode("c1") /\ tx["c1"].command.val < 2 ^ tx_length)
        => /\ Len(pin_log) <= WholeTransmission
           /\ \A j \in 1 .. Len(pin_log) :
                 /\ pin_log[j].level = (j % 2 = 1)
                 /\ pin_log[j].hold = ExpectedHold(tx["c1"].command.val, j)
           /\ (tx["c1"].pc = "returned" /\ tx["c1"].result = "success")
                 => Len(pin_log) = WholeTransmission

\* the transmission of code 5 = 0b101 in 3 bits, repeated, has returned
C9_Witness ==
    /\ tx_length = MaxBits /\ tx_repeat = MaxRepeat
    /\ tx["c1"].command.val = 5
    /\ tx["c1"].pc = "returned" /\ tx["c1"].result = "success"
    /\ Len(pin_log) = WholeTransmission

\* the number of binary digits of a code, and the number made of its first
\* tx_length digits
BitLength(v) == CHOOSE k \in 1 .. 31 : 2 ^ (k - 1) <= v /\ v < 2 ^ k
HighBits(v) == v \div 2 ^ (BitLength(v) - tx_length)

\* C16 as stated: for a code of more than tx_length bits the bits written
\* are the low-order tx_length bits of the code.
C16_LowBitsSent ==
    (HasCode("c1") /\ tx["c1"].command.val >= 2 ^ tx_length)
        => \A j \in 1 .. Len(pin_log) :
              pin_log[j].hold
                  = ExpectedHold(tx["c1"].command.val % 2 ^ tx_length, j)

\* C16, amended: a code of more than tx_length bits is transmitted without
\* an overflow check; every repetition holds exactly tx_length bits and a
\* sync, the bits being the tx_length most significant binary digits of the
\* code (the low-order digits are dropped), and the request returns success.
C16_HighBitsSent ==
    (HasCode("c1") /\ tx["c1"].command.val >= 2 ^ tx_length)
        => /\ Len(pin_log) <= WholeTransmission
           /\ \A j \in 1 .. Len(pin_log) :
                 pin_log[j].hold
                     = ExpectedHold(HighBits(tx["c1"].command.val), j)
           /\ tx["c1"].pc = "returned"
                 => /\ tx["c1"].result = "success"
                    /\ Len(pin_log) = WholeTransmission

\* the transmission of code 9 = 0b1001 in 3 bits has returned: it sent 100
C16_Witness ==
    /\ tx_length = 3 /\ tx_repeat = 1
    /\ tx["c1"].command.val = 9
    /\ tx["c1"].pc = "returned" /\ tx["c1"].result = "success"
    /\ Len(pin_log) = WholeTransmission
    /\ pin_log[5].hold = 3500 /\ pin_log[6].hold = 10500

\* C19: the pin writes of one transmission.  The writes alternate high, low,
\* high, low, starting with high; while a high write waits for its hold or
\* for its low write it is the last write; the next high write comes only
\* after a low write; and when the transmission has returned the last write
\* was low and the pin is low.
C19_PinWriteOrdering ==
    tx["c1"].pc # "cancelled"
        => /\ \A j \in 1 .. Len(pin_log) : pin_log[j].level = (j % 2 = 1)
           /\ tx["c1"].pc \in {"hold_high", "set_low"}
                 => Len(pin_log) % 2 = 1 /\ pin = TRUE
           /\ tx["c1"].pc \in {"set_high", "hold_low"}
                 => Len(pin_log) % 2 = 0 /\ pin = FALSE
           /\ tx["c1"].pc = "hold_low" => Len(pin_log) > 0
           /\ (tx["c1"].pc = "returned" /\ tx["c1"].result = "success")
                 => /\ Len(pin_log) > 0
                    /\ ~pin_log[Len(pin_log)].level
                    /\ pin = FALSE

\* the transmission of code 1 in 1 bit, repeated twice, has returned after
\* eight writes
C19_Witness ==
    /\ tx_length = 1 /\ tx_repeat = 2
    /\ tx["c1"].command.val = 1
    /\ tx["c1"].pc = "returned" /\ tx["c1"].result = "success"
    /\ Len(pin_log) = 8
    /\ pin = FALSE

\* ------------------------------------------------------------------------
\* Two overlapping transmit requests on one Transmitter
\* ------------------------------------------------------------------------
InitTxOverlap ==
    /\ tx_length \in 1 .. MaxOverlapBits
    /\ tx_repeat \in 1 .. MaxOverlapRepeat
    /\ tx = [c \in Callers |-> IdleCall]
    /\ pin = FALSE
    /\ pin_log = << >>
    /\ ClassDefaults
    /\ tasks = [t \in TaskIds |-> Unborn]
    /\ NoRoundTrip

\* the requests carry a code other than 0 that fits in tx_length bits
OverlapCommands == [kind : {"num"}, val : 1 .. (2 ^ tx_length - 1)]

NextTxOverlap ==
    \/ \E c \in Callers : \E cmd \in OverlapCommands : DoCommand(c, cmd)
    \/ \E c \in Callers : TxGotGpio(c)
    \/ \E c \in Callers : TxSetHigh(c)
    \/ \E c \in Callers : TxSleep(c)
    \/ \E c \in Callers : TxSetLow(c)

SpecTxOverlap == InitTxOverlap /\ [][NextTxOverlap]_vars

\* C15: one transmission at a time.  The pin writes of two overlapping
\* requests are not interleaved: no write of one request lies between two
\* writes of the other.
C15_NoInterleaving ==
    \A i, j, k \in 1 .. Len(pin_log) :
        (i < j /\ j < k /\ pin_log[i].by = pin_log[k].by)
            => pin_log[j].by = pin_log[i].by

====
